---- MODULE Spec2Model ----
(***************************************************************************)
(* The create-pipeline command of spk: commands/service/pipeline.ts        *)
(* (createPipelineCommandDecorator, installPipeline) and                   *)
(* lib/pipelines/pipelines.ts (definitionForAzureRepoPipeline,             *)
(* createPipelineForDefinition, queueBuild).                               *)
(*                                                                         *)
(* One behaviour is one run: either the commander action of the command    *)
(* (exit function = process.exit, which ends the process) or a direct call *)
(* of the exported installPipeline with an injected exitFn that returns.   *)
(* Every await of a vendor call is a position of the run: the call is      *)
(* issued in one step and settles (resolves / rejects) in a later one.     *)
(*                                                                         *)
(* JavaScript values are records [t |-> typeof tag, v |-> payload]; a      *)
(* string's payload is its sequence of characters (a literal that is never *)
(* taken apart is written as one element). path is the POSIX path module.  *)
(***************************************************************************)
EXTENDS Integers, Sequences, FiniteSets, TLC

VARIABLES pc, caller, serviceName, resolved, args, devopsClient, definition,
          builtDefinition, inFlight, events

vars == <<pc, caller, serviceName, resolved, args, devopsClient, definition,
          builtDefinition, inFlight, events>>

(***************************************************************************)
(* Bounds of the inputs.                                                   *)
(***************************************************************************)
MaxDirLen == 2
MaxNameLen == 1
MaxId == 1

(***************************************************************************)
(* JavaScript values.                                                      *)
(***************************************************************************)
Str(s) == [t |-> "string", v |-> s]
Num(n) == [t |-> "number", v |-> <<n>>]
Undefined == [t |-> "undefined", v |-> <<>>]
Null == [t |-> "null", v |-> <<>>]
True == [t |-> "boolean", v |-> <<"true">>]

TypeOf(x) == IF x.t = "null" THEN "object" ELSE x.t

Truthy(x) ==
  CASE x.t = "undefined" -> FALSE
    [] x.t = "null" -> FALSE
    [] x.t = "string" -> Len(x.v) > 0
    [] x.t = "number" -> x.v[1] # 0
    [] OTHER -> TRUE

(***************************************************************************)
(* path.join / path.normalize (POSIX).                                     *)
(***************************************************************************)
RECURSIVE SplitFrom(_, _, _)
SplitFrom(s, i, cur) ==
  IF i > Len(s) THEN <<cur>>
  ELSE IF s[i] = "/" THEN <<cur>> \o SplitFrom(s, i + 1, <<>>)
  ELSE SplitFrom(s, i + 1, Append(cur, s[i]))

Split(s) == SplitFrom(s, 1, <<>>)

Front(q) == SubSeq(q, 1, Len(q) - 1)

RECURSIVE normalizeString(_, _, _)
normalizeString(segs, acc, allowAboveRoot) ==
  IF segs = <<>> THEN acc
  ELSE LET seg == Head(segs)
           nacc == IF seg = <<>> \/ seg = <<".">> THEN acc
                   ELSE IF seg = <<".", ".">>
                        THEN IF acc # <<>> /\ acc[Len(acc)] # <<".", ".">>
                             THEN Front(acc)
                             ELSE IF allowAboveRoot THEN Append(acc, seg) ELSE acc
                   ELSE Append(acc, seg)
       IN normalizeString(Tail(segs), nacc, allowAboveRoot)

RECURSIVE JoinSegs(_)
JoinSegs(segs) ==
  IF segs = <<>> THEN <<>>
  ELSE IF Len(segs) = 1 THEN segs[1]
  ELSE segs[1] \o <<"/">> \o JoinSegs(Tail(segs))

normalize(p) ==
  IF Len(p) = 0 THEN <<".">>
  ELSE LET isAbsolute == p[1] = "/"
           trailingSeparator == p[Len(p)] = "/"
           body == JoinSegs(normalizeString(Split(p), <<>>, ~isAbsolute))
       IN IF Len(body) = 0
          THEN IF isAbsolute THEN <<"/">>
               ELSE IF trailingSeparator THEN <<".", "/">> ELSE <<".">>
          ELSE (IF isAbsolute THEN <<"/">> ELSE <<>>) \o body
               \o (IF trailingSeparator THEN <<"/">> ELSE <<>>)

RECURSIVE JoinArgs(_)
JoinArgs(as) ==
  IF as = <<>> THEN <<>>
  ELSE LET rest == JoinArgs(Tail(as))
       IN IF Len(Head(as)) = 0 THEN rest
          ELSE IF rest = <<>> THEN Head(as)
          ELSE Head(as) \o <<"/">> \o rest

pathJoin(as) ==
  LET joined == JoinArgs(as)
  IN IF joined = <<>> THEN <<".">> ELSE normalize(joined)

(***************************************************************************)
(* Inputs of a run.                                                        *)
(***************************************************************************)
Flags == {"pipelineName", "personalAccessToken", "orgName", "repoName",
          "repoUrl", "devopsProject"}

\* The flags in the order in which the action validates them.
FlagOrder == <<"pipelineName", "personalAccessToken", "orgName", "repoName",
               "repoUrl", "devopsProject">>

RECURSIVE Strings(_, _)
Strings(chars, n) ==
  IF n = 0 THEN {<<>>}
  ELSE LET shorter == Strings(chars, n - 1)
       IN shorter \cup {Append(s, c) : s \in shorter, c \in chars}

\* <service-name> is a required argument of the command: never empty.
ServiceNames == {Str(s) : s \in Strings({"s", "."}, MaxNameLen) \ {<<>>}}

\* --packages-dir: absent, or any string (the empty one included).
PackagesDirs == {Undefined} \cup {Str(s) : s \in Strings({"p", ".", "/"}, MaxDirLen)}

\* What an option of opts can hold: absent, the string the user gave, or a
\* value that is no string.
OptValue(f, kind) ==
  CASE kind = "absent" -> Undefined
    [] kind = "boolean" -> True
    [] OTHER -> Str(<<"opt", f>>)

OptsSet == {[f \in Flags |-> OptValue(f, k[f])] :
              k \in [Flags -> {"absent", "string", "boolean"}]}

\* Config().azure_devops: absent, or present with its three fields.
ConfigSet == {[present |-> FALSE],
              [present |-> TRUE, org |-> Str(<<"cfg", "orgName">>),
               access_token |-> Str(<<"cfg", "personalAccessToken">>),
               project |-> Str(<<"cfg", "devopsProject">>)]}

\* getRepositoryName / getRepositoryUrl of the git origin.
GitRepositoryName == Str(<<"git", "repoName">>)
GitRepositoryUrl == Str(<<"git", "repoUrl">>)

\* azure_devops && azure_devops.<field>
ConfigField(cfg, field) == IF cfg.present THEN cfg[field] ELSE Undefined

\* A destructuring default applies exactly when the property is undefined.
Default(value, fallback) == IF value = Undefined THEN fallback ELSE value

ResolveOpts(sn, opts, cfg) ==
  [orgName |-> Default(opts.orgName, ConfigField(cfg, "org")),
   personalAccessToken |->
     Default(opts.personalAccessToken, ConfigField(cfg, "access_token")),
   devopsProject |-> Default(opts.devopsProject, ConfigField(cfg, "project")),
   pipelineName |-> Default(opts.pipelineName, Str(sn.v \o <<"-pipeline">>)),
   repoName |-> Default(opts.repoName, GitRepositoryName),
   repoUrl |-> Default(opts.repoUrl, GitRepositoryUrl)]

RECURSIVE FirstNonString(_, _, _)
FirstNonString(r, order, i) ==
  IF i > Len(order) THEN "none"
  ELSE IF TypeOf(r[order[i]]) # "string" THEN order[i]
  ELSE FirstNonString(r, order, i + 1)

\* Mutant: the last check of the validation block (--devops-project) is missing.
ValidationErrorNoProject(r) == FirstNonString(r, SubSeq(FlagOrder, 1, 5), 1)

\* The flag whose check throws in the validation block, "none" if none does.
ValidationError(r) == FirstNonString(r, FlagOrder, 1)

(***************************************************************************)
(* lib/pipelines/pipelines.ts                                              *)
(***************************************************************************)
hostedUbuntuPool == "Hosted Ubuntu 1604"
hostedUbuntuPoolId == 224
SettingsSourceType == 2

\* Mutant: the repository type of the GitHub variant is used.
definitionForAzureRepoPipelineGithubType(pipelineConfig) ==
  [badgeEnabled |-> TRUE,
   triggers |-> <<[batchChanges |-> FALSE,
                   branchFilters |-> pipelineConfig.branchFilters,
                   maxConcurrentBuildsPerBranch |->
                     pipelineConfig.maximumConcurrentBuilds,
                   settingsSourceType |-> SettingsSourceType,
                   triggerType |-> "ContinuousIntegration"]>>,
   queue |-> [name |-> hostedUbuntuPool,
              pool |-> [id |-> hostedUbuntuPoolId, name |-> hostedUbuntuPool]],
   queueStatus |-> "Enabled",
   name |-> pipelineConfig.pipelineName,
   type |-> "Build",
   quality |-> "Definition",
   repository |-> [defaultBranch |-> pipelineConfig.yamlFileBranch,
                   id |-> pipelineConfig.repositoryName,
                   name |-> pipelineConfig.repositoryName,
                   type |-> "github",
                   url |-> pipelineConfig.repositoryUrl],
   process |-> [yamlFilename |-> pipelineConfig.yamlFilePath]]

definitionForAzureRepoPipeline(pipelineConfig) ==
  LET base ==
        [badgeEnabled |-> TRUE,
         triggers |-> <<[batchChanges |-> FALSE,
                         branchFilters |-> pipelineConfig.branchFilters,
                         maxConcurrentBuildsPerBranch |->
                           pipelineConfig.maximumConcurrentBuilds,
                         settingsSourceType |-> SettingsSourceType,
                         triggerType |-> "ContinuousIntegration"]>>,
         queue |-> [name |-> hostedUbuntuPool,
                    pool |-> [id |-> hostedUbuntuPoolId, name |-> hostedUbuntuPool]],
         queueStatus |-> "Enabled",
         name |-> pipelineConfig.pipelineName,
         type |-> "Build",
         quality |-> "Definition",
         repository |-> [defaultBranch |-> pipelineConfig.yamlFileBranch,
                         id |-> pipelineConfig.repositoryName,
                         name |-> pipelineConfig.repositoryName,
                         type |-> "tfsgit",
                         url |-> pipelineConfig.repositoryUrl],
         process |-> [yamlFilename |-> pipelineConfig.yamlFilePath]]
  IN IF "variables" \in DOMAIN pipelineConfig /\ Truthy(pipelineConfig.variables)
     THEN base @@ [variables |-> pipelineConfig.variables]
     ELSE base

\* Mutant: the id is passed through `definitionId || undefined`.
buildReferenceTruthyId(definitionId) ==
  [definition |-> [id |-> IF Truthy(definitionId) THEN definitionId ELSE Undefined]]

\* The Build that queueBuild hands to buildApi.queueBuild.
buildReference(definitionId) == [definition |-> [id |-> definitionId]]

\* Mutant: only `createdDefn === undefined` is tested, null passes.
createdDefnInvalidUndefinedOnly(createdDefn) == createdDefn = Undefined

\* if (!createdDefn) in createPipelineForDefinition
createdDefnInvalid(createdDefn) == ~Truthy(createdDefn)

(***************************************************************************)
(* commands/service/pipeline.ts: installPipeline                           *)
(***************************************************************************)
\* Mutant: the service directory is joined before the packages directory.
yamlFilePathServiceFirst(packagesDir, sn) ==
  IF Truthy(packagesDir)
  THEN Str(pathJoin(<<sn.v, packagesDir.v, <<"azure-pipelines.yaml">>>>))
  ELSE Str(<<"azure-pipelines.yaml">>)

yamlFilePath(packagesDir, sn) ==
  IF Truthy(packagesDir)
  THEN Str(pathJoin(<<packagesDir.v, sn.v, <<"azure-pipelines.yaml">>>>))
  ELSE Str(<<"azure-pipelines.yaml">>)

pipelineConfigOf(a) ==
  [branchFilters |-> <<"master">>,
   maximumConcurrentBuilds |-> 1,
   pipelineName |-> a.pipelineName,
   repositoryName |-> a.repositoryName,
   repositoryUrl |-> a.repositoryUrl,
   yamlFileBranch |-> "master",
   yamlFilePath |-> yamlFilePath(a.packagesDir, a.serviceName)]

\* Property access obj.id (undefined when the property is absent).
IdOf(obj) == IF "id" \in DOMAIN obj THEN obj.id ELSE Undefined

\* Mutant: the id is compared with null instead of testing its type.
idMissingNullOnly(defn) == IdOf(defn) = Null

\* typeof builtDefinition.id === "undefined"
idMissing(defn) == TypeOf(IdOf(defn)) = "undefined"

(***************************************************************************)
(* What a run does that can be observed: log lines, vendor calls and how   *)
(* they settle, errors thrown to the caller, calls of the exit function.   *)
(***************************************************************************)
Log(level, msg) == [k |-> "log", level |-> level, msg |-> msg]
Call(api, payload, project) ==
  [k |-> "call", api |-> api, payload |-> payload, project |-> project]
Settle(api, ok, value) == [k |-> "settle", api |-> api, ok |-> ok, value |-> value]
Thrown(msg) == [k |-> "throw", msg |-> msg]
Exit(status) == [k |-> "exit", status |-> status]

\* What buildApi.createDefinition can resolve to: null or undefined (the
\* vendor's way to report an error), or a definition with or without an id.
CreateResults(defn) ==
  {Null, Undefined, [t |-> "object", name |-> defn.name]}
    \cup {[t |-> "object", name |-> defn.name, id |-> Num(n)] : n \in 0 .. MaxId}

\* process.exit ends the process; an injected exitFn returns to installPipeline,
\* whose `return exitFn(1)` then returns to its caller.
pcAfterExitFn == IF caller = "command" THEN "exited" ELSE "returned"

NoArgs == [serviceName |-> Undefined, orgName |-> Undefined,
           personalAccessToken |-> Undefined, pipelineName |-> Undefined,
           repositoryName |-> Undefined, repositoryUrl |-> Undefined,
           project |-> Undefined, packagesDir |-> Undefined]

NoResolved == [f \in Flags |-> Undefined]

Init ==
  /\ pc = "start"
  /\ caller = "none"
  /\ serviceName = Undefined
  /\ resolved = NoResolved
  /\ args = NoArgs
  /\ devopsClient = Undefined
  /\ definition = Undefined
  /\ builtDefinition = Undefined
  /\ inFlight = {}
  /\ events = <<>>

(***************************************************************************)
(* createPipelineCommandDecorator: the action of create-pipeline.          *)
(***************************************************************************)
\* A check of the validation block throws: log twice, process.exit(1).
CommandValidateFail ==
  /\ pc = "start"
  /\ \E sn \in ServiceNames, opts \in OptsSet, cfg \in ConfigSet :
       LET r == ResolveOpts(sn, opts, cfg) IN
       /\ ValidationError(r) # "none"
       /\ serviceName' = sn
       /\ resolved' = r
       /\ events' = events \o <<Log("error", "Error occurred validating inputs"),
                                Log("error", <<"must be of type 'string'",
                                               ValidationError(r)>>),
                                Exit(1)>>
  /\ caller' = "command"
  /\ pc' = "exited"
  /\ UNCHANGED <<args, devopsClient, definition, builtDefinition, inFlight>>

\* Every check passes: installPipeline is called with process.exit.
CommandValidatePass ==
  /\ pc = "start"
  /\ \E sn \in ServiceNames, opts \in OptsSet, cfg \in ConfigSet,
        pd \in PackagesDirs :
       LET r == ResolveOpts(sn, opts, cfg) IN
       /\ ValidationError(r) = "none"
       /\ serviceName' = sn
       /\ resolved' = r
       /\ args' = [serviceName |-> sn, orgName |-> r.orgName,
                   personalAccessToken |-> r.personalAccessToken,
                   pipelineName |-> r.pipelineName,
                   repositoryName |-> r.repoName,
                   repositoryUrl |-> r.repoUrl,
                   project |-> r.devopsProject, packagesDir |-> pd]
  /\ caller' = "command"
  /\ pc' = "install"
  /\ UNCHANGED <<devopsClient, definition, builtDefinition, inFlight, events>>

\* The exported installPipeline called directly, with strings and an exitFn
\* that returns.
DirectInstall ==
  /\ pc = "start"
  /\ \E sn \in ServiceNames, pd \in PackagesDirs :
       args' = [serviceName |-> sn, orgName |-> OptValue("orgName", "string"),
                personalAccessToken |-> OptValue("personalAccessToken", "string"),
                pipelineName |-> OptValue("pipelineName", "string"),
                repositoryName |-> OptValue("repoName", "string"),
                repositoryUrl |-> OptValue("repoUrl", "string"),
                project |-> OptValue("devopsProject", "string"),
                packagesDir |-> pd]
  /\ caller' = "direct"
  /\ pc' = "install"
  /\ UNCHANGED <<serviceName, resolved, devopsClient, definition,
                 builtDefinition, inFlight, events>>

(***************************************************************************)
(* installPipeline                                                         *)
(***************************************************************************)
\* Mutant: getBuildApiClient is not awaited; createDefinition is issued at once.
GetBuildApiClientCallNoAwait ==
  /\ pc = "install"
  /\ definition' = definitionForAzureRepoPipeline(pipelineConfigOf(args))
  /\ inFlight' = inFlight \cup {"getBuildApi", "createDefinition"}
  /\ events' = events \o <<Call("getBuildApi", args.personalAccessToken,
                                args.orgName),
                           Call("createDefinition", definition', args.project)>>
  /\ pc' = "awaitCreate"
  /\ UNCHANGED <<caller, serviceName, resolved, args, devopsClient,
                 builtDefinition>>

\* getBuildApiClient -> initBuildApiClient -> connection.getBuildApi() is
\* issued and awaited.
GetBuildApiClientCall ==
  /\ pc = "install"
  /\ inFlight' = inFlight \cup {"getBuildApi"}
  /\ events' = Append(events, Call("getBuildApi", args.personalAccessToken,
                                   args.orgName))
  /\ pc' = "awaitClient"
  /\ UNCHANGED <<caller, serviceName, resolved, args, devopsClient, definition,
                 builtDefinition>>

\* The token handler, azdoUrl or the WebApi constructor throws before any
\* request is made: the first catch of installPipeline.
GetBuildApiClientThrow ==
  /\ pc = "install"
  /\ events' = events \o <<Settle("getBuildApi", FALSE, Undefined),
                           Log("error", "client error"),
                           Exit(1)>>
  /\ pc' = pcAfterExitFn
  /\ UNCHANGED <<caller, serviceName, resolved, args, devopsClient, definition,
                 builtDefinition, inFlight>>

\* Mutant: the first catch calls exitFn without logging the error.
GetBuildApiClientRejectSilent ==
  /\ pc = "awaitClient"
  /\ inFlight' = inFlight \ {"getBuildApi"}
  /\ events' = events \o <<Settle("getBuildApi", FALSE, Undefined), Exit(1)>>
  /\ pc' = pcAfterExitFn
  /\ UNCHANGED <<caller, serviceName, resolved, args, devopsClient, definition,
                 builtDefinition>>

GetBuildApiClientReject ==
  /\ pc = "awaitClient"
  /\ inFlight' = inFlight \ {"getBuildApi"}
  /\ events' = events \o <<Settle("getBuildApi", FALSE, Undefined),
                           Log("error", "client error"),
                           Exit(1)>>
  /\ pc' = pcAfterExitFn
  /\ UNCHANGED <<caller, serviceName, resolved, args, devopsClient, definition,
                 builtDefinition>>

\* The client is there: build the definition and enter
\* createPipelineForDefinition up to its await of createDefinition.
GetBuildApiClientResolve ==
  /\ pc = "awaitClient"
  /\ devopsClient' = [t |-> "object", org |-> args.orgName]
  /\ definition' = definitionForAzureRepoPipeline(pipelineConfigOf(args))
  /\ inFlight' = (inFlight \ {"getBuildApi"}) \cup {"createDefinition"}
  /\ events' = events \o <<Settle("getBuildApi", TRUE, devopsClient'),
                           Log("info", "Fetched DevOps Client"),
                           Log("debug", "Creating pipeline for project"),
                           Log("info", "Creating pipeline for definition"),
                           Log("debug", "Creating BuildDefinition based on"),
                           Call("createDefinition", definition', args.project)>>
  /\ pc' = "awaitCreate"
  /\ UNCHANGED <<caller, serviceName, resolved, args, builtDefinition>>

\* Mutant: the second catch logs but does not call exitFn.
CreateDefinitionRejectNoExit ==
  /\ pc = "awaitCreate"
  /\ inFlight' = inFlight \ {"createDefinition"}
  /\ events' = events \o <<Settle("createDefinition", FALSE, Undefined),
                           Log("error", "vendor error"),
                           Log("error", "Error occurred during pipeline creation"),
                           Log("error", "Error creating definition")>>
  /\ pc' = "done"
  /\ UNCHANGED <<caller, serviceName, resolved, args, devopsClient, definition,
                 builtDefinition>>

\* createDefinition rejects: createPipelineForDefinition logs the cause and
\* throws; the second catch of installPipeline logs twice and exits.
CreateDefinitionReject ==
  /\ pc = "awaitCreate"
  /\ inFlight' = inFlight \ {"createDefinition"}
  /\ events' = events \o <<Settle("createDefinition", FALSE, Undefined),
                           Log("error", "vendor error"),
                           Log("error", "Error occurred during pipeline creation"),
                           Log("error", "Error creating definition"),
                           Exit(1)>>
  /\ pc' = pcAfterExitFn
  /\ UNCHANGED <<caller, serviceName, resolved, args, devopsClient, definition,
                 builtDefinition>>

\* createDefinition resolves to a value that fails `if (!createdDefn)`.
CreateDefinitionResolveInvalid ==
  /\ pc = "awaitCreate"
  /\ \E createdDefn \in CreateResults(definition) :
       /\ createdDefnInvalid(createdDefn)
       /\ events' = events \o
            <<Settle("createDefinition", TRUE, createdDefn),
              Log("error", "Error creating BuildDefinition; invalid value"),
              Log("error", "Error occurred during pipeline creation"),
              Log("error", "Error creating definition"),
              Exit(1)>>
  /\ inFlight' = inFlight \ {"createDefinition"}
  /\ pc' = pcAfterExitFn
  /\ UNCHANGED <<caller, serviceName, resolved, args, devopsClient, definition,
                 builtDefinition>>

\* createPipelineForDefinition returns a definition whose id is undefined:
\* installPipeline throws. The command's catch logs and calls process.exit(1);
\* a direct caller gets the rejection.
CreateDefinitionResolveNoId ==
  /\ pc = "awaitCreate"
  /\ \E createdDefn \in CreateResults(definition) :
       /\ ~createdDefnInvalid(createdDefn)
       /\ idMissing(createdDefn)
       /\ builtDefinition' = createdDefn
       /\ events' = events \o
            <<Settle("createDefinition", TRUE, createdDefn),
              Thrown("Invalid BuildDefinition created")>>
            \o (IF caller = "command"
                THEN <<Log("error", "Error occurred installing pipeline"),
                       Log("error", "Invalid BuildDefinition created"),
                       Exit(1)>>
                ELSE <<>>)
  /\ inFlight' = inFlight \ {"createDefinition"}
  /\ pc' = IF caller = "command" THEN "exited" ELSE "rejected"
  /\ UNCHANGED <<caller, serviceName, resolved, args, devopsClient, definition>>

\* The created definition has an id: queueBuild is entered up to its await.
CreateDefinitionResolveOk ==
  /\ pc = "awaitCreate"
  /\ \E createdDefn \in CreateResults(definition) :
       /\ ~createdDefnInvalid(createdDefn)
       /\ ~idMissing(createdDefn)
       /\ builtDefinition' = createdDefn
       /\ events' = events \o
            <<Settle("createDefinition", TRUE, createdDefn),
              Log("info", "Created pipeline"),
              Log("info", "Pipeline ID"),
              Call("queueBuild", buildReference(IdOf(createdDefn)), args.project)>>
  /\ inFlight' = (inFlight \ {"createDefinition"}) \cup {"queueBuild"}
  /\ pc' = "awaitQueue"
  /\ UNCHANGED <<caller, serviceName, resolved, args, devopsClient, definition>>

\* Mutant: a rejected queueBuild is issued again.
QueueBuildRejectRetry ==
  /\ pc = "awaitQueue"
  /\ Len(events) < 20
  /\ events' = events \o <<Settle("queueBuild", FALSE, Undefined),
                           Log("error", "vendor error"),
                           Call("queueBuild", buildReference(IdOf(builtDefinition)),
                                args.project)>>
  /\ UNCHANGED <<pc, caller, serviceName, resolved, args, devopsClient,
                 definition, builtDefinition, inFlight>>

\* queueBuild rejects: queueBuild logs the cause and throws; the third catch
\* of installPipeline logs twice and exits.
QueueBuildReject ==
  /\ pc = "awaitQueue"
  /\ inFlight' = inFlight \ {"queueBuild"}
  /\ events' = events \o <<Settle("queueBuild", FALSE, Undefined),
                           Log("error", "vendor error"),
                           Log("error", "Error occurred when queueing build"),
                           Log("error", "Error queueing build"),
                           Exit(1)>>
  /\ pc' = pcAfterExitFn
  /\ UNCHANGED <<caller, serviceName, resolved, args, devopsClient, definition,
                 builtDefinition>>

\* queueBuild resolves: installPipeline and the action return.
QueueBuildResolve ==
  /\ pc = "awaitQueue"
  /\ inFlight' = inFlight \ {"queueBuild"}
  /\ events' = Append(events, Settle("queueBuild", TRUE, Undefined))
  /\ pc' = "done"
  /\ UNCHANGED <<caller, serviceName, resolved, args, devopsClient, definition,
                 builtDefinition>>

Next ==
  \/ CommandValidateFail
  \/ CommandValidatePass
  \/ DirectInstall
  \/ GetBuildApiClientCall
  \/ GetBuildApiClientThrow
  \/ GetBuildApiClientReject
  \/ GetBuildApiClientResolve
  \/ CreateDefinitionReject
  \/ CreateDefinitionResolveInvalid
  \/ CreateDefinitionResolveNoId
  \/ CreateDefinitionResolveOk
  \/ QueueBuildReject
  \/ QueueBuildResolve

Spec == Init /\ [][Next]_vars

(***************************************************************************)
(* Vocabulary of the properties.                                           *)
(***************************************************************************)
Idx == 1 .. Len(events)

Calls(api) == {i \in Idx : IF events[i].k = "call" THEN events[i].api = api ELSE FALSE}
Settles(api) ==
  {i \in Idx : IF events[i].k = "settle" THEN events[i].api = api ELSE FALSE}
Exits == {i \in Idx : events[i].k = "exit"}
ErrorLogs == {i \in Idx : IF events[i].k = "log" THEN events[i].level = "error" ELSE FALSE}
VendorApis == {"getBuildApi", "createDefinition", "queueBuild"}

\* A vendor step failed at event i: it rejected (or threw), or createDefinition
\* resolved to null / undefined.
IsFailure(i) ==
  IF events[i].k # "settle" THEN FALSE
  ELSE IF ~events[i].ok THEN TRUE
  ELSE events[i].api = "createDefinition" /\ events[i].value \in {Null, Undefined}

Failures == {i \in Idx : IsFailure(i)}

SettledOk(api) == \E i \in Settles(api) : events[i].ok /\ ~IsFailure(i)

HasErrorLog(msg) == \E i \in ErrorLogs : events[i].msg = msg

\* The created definitions that came back without an id.
NoIdResults ==
  {i \in Settles("createDefinition") :
     IF IsFailure(i) THEN FALSE ELSE TypeOf(IdOf(events[i].value)) = "undefined"}

\* <packages-dir>/<service-name>/azure-pipelines.yaml, character by character.
LiteralYamlPath(a) ==
  Str(a.packagesDir.v \o <<"/">> \o a.serviceName.v \o <<"/", "azure-pipelines.yaml">>)

\* A path of plain segments: not empty, no trailing slash, no empty, "." or ".."
\* segment (a leading slash is allowed).
Plain(s) ==
  /\ Len(s) > 0
  /\ LET rel == IF s[1] = "/" THEN Tail(s) ELSE s
         segs == Split(rel)
     IN \A i \in 1 .. Len(segs) : segs[i] \notin {<<>>, <<".">>, <<".", ".">>}

(***************************************************************************)
(* C1: in a run of the command, a failed validation or a failed vendor     *)
(* step (client, createDefinition, queueBuild) ends in process.exit(1),    *)
(* and a run in which validation passed and all three steps succeeded with *)
(* a definition that has an id never calls the exit function.              *)
(***************************************************************************)
C1_ExitOneOnFailureElseNoExit ==
  caller = "command" =>
    /\ (ValidationError(resolved) # "none" \/ Failures # {}) =>
         /\ pc = "exited"
         /\ Exits # {}
         /\ \A i \in Exits : events[i].status = 1
    /\ (/\ ValidationError(resolved) = "none"
        /\ \A api \in VendorApis : SettledOk(api)) =>
         /\ Exits = {}
         /\ pc = "done"

C1_Witness ==
  /\ caller = "command"
  /\ pc = "exited"
  /\ \E i \in Failures : events[i].api = "createDefinition" /\ ~events[i].ok

(***************************************************************************)
(* C2: the vendor calls are issued in the order getBuildApi,               *)
(* createDefinition, queueBuild, each only after the one before it has     *)
(* settled successfully, and at most one of them is in flight.             *)
(***************************************************************************)
C2_CallsInSequence ==
  /\ Cardinality(inFlight) <= 1
  /\ \A i \in Calls("createDefinition") :
       \E j \in Settles("getBuildApi") : j < i /\ events[j].ok
  /\ \A i \in Calls("queueBuild") :
       \E j \in Settles("createDefinition") : j < i /\ ~IsFailure(j)
  /\ \A i \in Idx : events[i].k = "call" =>
       \A j \in 1 .. (i - 1) : events[j].k = "call" =>
         \E l \in Settles(events[j].api) : j < l /\ l < i

C2_Witness ==
  /\ pc = "awaitQueue"
  /\ inFlight = {"queueBuild"}
  /\ \A api \in VendorApis : Calls(api) # {}

(***************************************************************************)
(* C3: the build that is queued refers to the id of the definition that    *)
(* createDefinition returned in this run, unchanged (0 included), and the  *)
(* project of the two calls is the same.                                   *)
(***************************************************************************)
C3_QueuedIdIsCreatedId ==
  \A i \in Calls("queueBuild") :
    /\ events[i].payload.definition.id = IdOf(builtDefinition)
    /\ TypeOf(events[i].payload.definition.id) = "number"
    /\ \A j \in Settles("createDefinition") :
         events[i].payload.definition.id = IdOf(events[j].value)
    /\ \A j \in Calls("createDefinition") : events[i].project = events[j].project

C3_Witness ==
  /\ Calls("queueBuild") # {}
  /\ IdOf(builtDefinition) = Num(0)

C5_NonStringFlagRejected ==
  (caller = "command" /\ \E f \in Flags : TypeOf(resolved[f]) # "string") =>
    /\ pc = "exited"
    /\ HasErrorLog("Error occurred validating inputs")
    /\ \E i \in Exits : events[i].status = 1
    /\ \A i \in Idx : events[i].k \notin {"call", "settle"}
    /\ inFlight = {}
    /\ devopsClient = Undefined

C5_Witness ==
  /\ caller = "command"
  /\ pc = "exited"
  /\ TypeOf(resolved.devopsProject) = "undefined"
  /\ \A f \in Flags \ {"devopsProject"} : TypeOf(resolved[f]) = "string"

(***************************************************************************)
(* C6: every exit that follows a vendor failure is preceded by an error    *)
(* log written after that failure.                                         *)
(***************************************************************************)
C6_ErrorLoggedBeforeExit ==
  \A j \in Failures : \A i \in Exits :
    j < i => \E l \in ErrorLogs : j < l /\ l < i

C6_Witness ==
  /\ \E j \in Failures : events[j].api = "getBuildApi" /\ Calls("getBuildApi") # {}
  /\ Exits # {}

(***************************************************************************)
(* C7: each vendor call is attempted at most once, and after a failed one  *)
(* no vendor call follows and exitFn is called exactly once, with 1, also  *)
(* when exitFn returns.                                                    *)
(***************************************************************************)
C7_NoRetryStopAtFirstFailure ==
  /\ \A api \in VendorApis :
       /\ Cardinality(Calls(api)) <= 1
       /\ Cardinality(Settles(api)) <= 1
  /\ \A j \in Failures :
       /\ \A i \in Idx : (i > j /\ events[i].k = "call") => FALSE
       /\ Cardinality(Exits) = 1
       /\ \A i \in Exits : i > j /\ events[i].status = 1
       /\ inFlight = {}
       /\ pc = IF caller = "command" THEN "exited" ELSE "returned"

C7_Witness ==
  /\ caller = "direct"
  /\ pc = "returned"
  /\ \E j \in Failures : events[j].api = "queueBuild"

(***************************************************************************)
(* C8: a null or undefined result of createDefinition is handled like a    *)
(* rejection: the cause is logged, "Error creating definition" is thrown   *)
(* (and logged by installPipeline) and queueBuild is never called; any     *)
(* other result is returned unchanged.                                     *)
(***************************************************************************)
C8_NullResultIsFailure ==
  \A j \in Settles("createDefinition") :
    IF IsFailure(j)
    THEN /\ j + 1 \in ErrorLogs
         /\ events[j + 1].msg = IF events[j].ok
                                THEN "Error creating BuildDefinition; invalid value"
                                ELSE "vendor error"
         /\ \E l \in ErrorLogs : l > j + 1 /\ events[l].msg = "Error creating definition"
         /\ Calls("queueBuild") = {}
         /\ builtDefinition = Undefined
    ELSE builtDefinition = events[j].value

C8_Witness ==
  /\ \E j \in Settles("createDefinition") : events[j].ok /\ events[j].value = Null
  /\ Exits # {}

(***************************************************************************)
(* C9: a created definition without an id makes installPipeline throw      *)
(* "Invalid BuildDefinition created" without calling queueBuild or exitFn; *)
(* the command's action catches it, logs it and exits with status 1.       *)
(***************************************************************************)
C9_MissingIdThrows ==
  \A j \in NoIdResults :
    /\ Calls("queueBuild") = {}
    /\ j + 1 \in Idx
    /\ events[j + 1] = Thrown("Invalid BuildDefinition created")
    /\ caller = "direct" => (Exits = {} /\ pc = "rejected")
    /\ caller = "command" =>
         /\ pc = "exited"
         /\ Exits = {Len(events)}
         /\ events[Len(events)].status = 1
         /\ \E l \in ErrorLogs : l > j + 1 /\ events[l].msg = "Invalid BuildDefinition created"

C9_Witness ==
  /\ caller = "command"
  /\ NoIdResults # {}
  /\ pc = "exited"

(***************************************************************************)
(* C10: what is submitted to createDefinition is the output of             *)
(* definitionForAzureRepoPipeline, with the name, repository, branch,      *)
(* trigger and queue status of the claim and without a variables field.    *)
(***************************************************************************)
C10_SubmittedDefinition ==
  \A i \in Calls("createDefinition") :
    LET d == events[i].payload IN
    /\ d = definition
    /\ d.name = args.pipelineName
    /\ d.repository.id = args.repositoryName
    /\ d.repository.name = args.repositoryName
    /\ d.repository.url = args.repositoryUrl
    /\ d.repository.type = "tfsgit"
    /\ d.repository.defaultBranch = "master"
    /\ Len(d.triggers) = 1
    /\ d.triggers[1].triggerType = "ContinuousIntegration"
    /\ d.triggers[1].branchFilters = <<"master">>
    /\ d.triggers[1].maxConcurrentBuildsPerBranch = 1
    /\ d.queueStatus = "Enabled"
    /\ "variables" \notin DOMAIN d

C10_Witness ==
  /\ Calls("createDefinition") # {}
  /\ caller = "command"
  /\ args.pipelineName = Str(<<"s", "-pipeline">>)
  /\ args.repositoryName = GitRepositoryName

====
